---- MODULE Spec2Model ----
(***************************************************************************)
(* The edge model synchronizer of src/edge/app/model_sync.py               *)
(* (class ModelSynchronizer) as a state machine.                           *)
(*                                                                         *)
(* The state is the artifact directory (files), the manifest file          *)
(* (mfile), the clock, and one ModelSynchronizer instance at a time with   *)
(* its in-memory manifest and its position (pc) inside sync_models.  A run *)
(* is started by the /sync-models endpoint (or main), walks through        *)
(* check_for_updates, the per-artifact loop with download_model, and       *)
(* returns a result.  _save_manifest is two steps (open for writing, which *)
(* truncates the file, and the dump), so that a crash or a write error     *)
(* between them is a state of the model.                                   *)
(*                                                                         *)
(* Python dicts are functions whose DOMAIN is the set of keys present, so  *)
(* a missing key is a key outside the DOMAIN.  None is the empty tuple and *)
(* a present optional value v is <<v>>.                                    *)
(***************************************************************************)
EXTENDS Integers, Sequences, FiniteSets, TLC

\* Bounds of the model.
MaxRuns == 2        \* sync runs (ModelSynchronizer instances) per behaviour
MaxUpdates == 2     \* entries of one negotiated update list

EmptyDict == [k \in {} |-> 0]

\* d.get(k, default)
Get(d, k, default) == IF k \in DOMAIN d THEN d[k] ELSE default

\* d[k] = v
DictSet(d, k, v) == [x \in (DOMAIN d) \cup {k} |-> IF x = k THEN v ELSE d[x]]

(***************************************************************************)
(* File names are token sequences ("en-es.bin" is                          *)
(* <<"en","-","es",".","bin">>), so that str.split and str.endswith are    *)
(* computed, not assumed.                                                  *)
(***************************************************************************)
FPair == <<"en", "-", "es", ".", "bin">>
FVariant == <<"en", "-", "fr", "-", "med", ".", "bin">>
Filenames == {FPair, FVariant}

\* str.split(sep): the pieces between the occurrences of sep.
RECURSIVE Split(_, _)
Split(s, sep) ==
    IF \A i \in 1..Len(s) : s[i] # sep
    THEN <<s>>
    ELSE LET i == CHOOSE k \in 1..Len(s) :
                      s[k] = sep /\ \A j \in 1..(k - 1) : s[j] # sep
         IN  <<SubSeq(s, 1, i - 1)>> \o Split(SubSeq(s, i + 1, Len(s)), sep)

\* filename.endswith('.bin')
EndsWithBin(f) == Len(f) >= 2 /\ f[Len(f) - 1] = "." /\ f[Len(f)] = "bin"

(***************************************************************************)
(* File contents: a blob stands for a byte string, with its length and its *)
(* MD5 digest.  "b0" is what a transfer cut short leaves behind.           *)
(***************************************************************************)
Blobs == {"b1", "b2"}
Partial == "b0"
SizeOf(b) == CASE b = "b0" -> 0 [] b = "b1" -> 1 [] b = "b2" -> 2
Md5Of(b) == CASE b = "b0" -> "h0" [] b = "b1" -> "h1" [] b = "b2" -> "h2"

\* A file of the artifact directory: its bytes and its modification time.
\* The directory is a dict from the names of the files in it to the files.
FileOf(b, t) == [bytes |-> b, mtime |-> t]

DeviceId == "unknown"

\* The manifest _load_manifest returns when there is no usable file.
EmptyManifest == [models |-> EmptyDict, last_sync |-> <<>>, device_id |-> DeviceId]

(***************************************************************************)
(* The manifest file: absent, a JSON document, or the invalid text left by *)
(* open(..., 'w') or by a dump that did not finish.                        *)
(***************************************************************************)
NoManifestFile == [kind |-> "none", doc |-> EmptyManifest]
Truncated == [kind |-> "truncated", doc |-> EmptyManifest]
JsonDump(m) == [kind |-> "json", doc |-> m]

\* Variant of LoadManifest with a slip: the file is never read.
LoadManifest_IgnoresFile(mf) == EmptyManifest

LoadManifest(mf) == IF mf.kind = "json" THEN mf.doc ELSE EmptyManifest

ErrorInfo(filename) ==
    [filename |-> filename, size |-> 0, modified |-> 0, md5 |-> "", error |-> "error"]

\* os.stat and open succeed on the file (it is no dangling link, no directory,
\* and may be read).
Readable(file) == "unreadable" \notin DOMAIN file

GetModelInfo(filename, dir) ==
    IF filename \notin DOMAIN dir \/ ~Readable(dir[filename])
    THEN ErrorInfo(filename)
    ELSE LET language_pair == Split(filename, ".")[1]
             langs == Split(language_pair, "-")
         IN  IF Len(langs) # 2
             THEN ErrorInfo(filename)
             ELSE [filename |-> filename, size |-> SizeOf(dir[filename].bytes),
                   modified |-> dir[filename].mtime, md5 |-> Md5Of(dir[filename].bytes),
                   source_language |-> langs[1], target_language |-> langs[2]]

\* Variant of GetCurrentModels with a slip: a file whose record cannot be built
\* is left out of the inventory.
GetCurrentModels_SkipsBad(dir) ==
    [f \in {g \in DOMAIN dir :
                EndsWithBin(g) /\ "error" \notin DOMAIN GetModelInfo(g, dir)}
        |-> GetModelInfo(f, dir)]

GetCurrentModels(dir) ==
    [f \in {g \in DOMAIN dir : EndsWithBin(g)} |-> GetModelInfo(f, dir)]

(***************************************************************************)
(* Download URLs, as token sequences: str.startswith('s3://') and the      *)
(* bucket/key split are computed on them.                                  *)
(***************************************************************************)
UrlS3 == <<"s3://", "bucket", "/", "key">>
UrlHttp == <<"https://", "host", "/", "key">>
Urls == {UrlS3, UrlHttp}

IsS3Url(url) == Len(url) >= 1 /\ url[1] = "s3://"

\* One entry of the "updates" list of the negotiation response; md5 is optional.
UpdateSpecs ==
    [filename : Filenames, download_url : Urls, size : {1, 2}, md5 : {"h1"}]
    \cup [filename : Filenames, download_url : Urls, size : {1, 2}]

\* Entries the remote end may send with a key missing.
MalformedSpecs ==
    { [download_url |-> UrlHttp, size |-> 1],
      [filename |-> FPair, download_url |-> UrlHttp] }

\* An entry whose object-storage locator has no key part: the bucket/key split
\* of _download_from_s3 fails on it.
UrlS3NoKey == <<"s3://", "bucket">>
UnparsableSpecs == {[filename |-> FPair, download_url |-> UrlS3NoKey, size |-> 1]}

ModelInfos == UpdateSpecs \cup MalformedSpecs \cup UnparsableSpecs

\* What happens to one transfer: it fails before a byte is written, it is cut
\* after some bytes, it delivers a blob, or it delivers a blob and the file is
\* deleted by hand before download_model looks at it.
Gone == "gone"
TransportOutcomes == {"error", "cut", Gone} \cup Blobs

(***************************************************************************)
(* The outcomes of the negotiation call: the request raises (timeout, no   *)
(* connection), a status other than 200, a 200 whose body is not JSON, or  *)
(* a 200 with a JSON body.  A body's "updates" is the length of the list;  *)
(* the entries are read one by one by the loop of sync_models.             *)
(***************************************************************************)
Bodies ==
    [success : BOOLEAN, updates : 0..MaxUpdates]
    \cup [success : BOOLEAN] \cup [updates : 0..MaxUpdates]
Responses ==
    {[kind |-> "raise", body |-> EmptyDict], [kind |-> "status", body |-> EmptyDict],
     [kind |-> "badjson", body |-> EmptyDict]}
    \cup {[kind |-> "ok", body |-> b] : b \in Bodies}

VARIABLES
    files,        \* the artifact directory: file name -> file
    mfile,        \* the manifest file
    now,          \* the clock (time.time())
    runs,         \* runs started so far
    pc,           \* position of the run in sync_models
    manifest,     \* self.manifest
    s3_client,    \* self.s3_client is not None
    update_info,  \* what check_for_updates returned
    todo,         \* entries of models_to_download not yet iterated
    cur,          \* model_info of the download_model call that is saving
    saving,       \* who called _save_manifest: "neg" or "commit"
    results,      \* the results dict of sync_models
    result,       \* what sync_models returned
    calls,        \* the download_model calls since the latest negotiation
                  \* began: <<filename, returned>>
    handlers      \* the /sync-models requests being served by the process:
                  \* request -> position and synchronizer.manifest

vars == <<files, mfile, now, runs, pc, manifest, s3_client, update_info, todo,
          cur, saving, results, result, calls, handlers>>

Init ==
    /\ files = EmptyDict
    /\ mfile = NoManifestFile
    /\ now = 0
    /\ runs = 0
    /\ pc = "idle"
    /\ manifest = EmptyManifest
    /\ s3_client = FALSE
    /\ update_info = EmptyDict
    /\ todo = 0
    /\ cur = EmptyDict
    /\ saving = "none"
    /\ results = EmptyDict
    /\ result = EmptyDict
    /\ calls = <<>>
    /\ handlers = EmptyDict

\* The instance's fields once the run is over (or killed).
ResetInstance ==
    /\ manifest' = EmptyManifest
    /\ s3_client' = FALSE
    /\ update_info' = EmptyDict
    /\ todo' = 0
    /\ cur' = EmptyDict
    /\ saving' = "none"
    /\ results' = EmptyDict
    /\ result' = EmptyDict

(***************************************************************************)
(* The two transports.  Each returns whether it reported completion and    *)
(* the directory it leaves.                                                *)
(***************************************************************************)
Delivered(dir, filename, outcome, t) ==
    IF outcome = Gone
    THEN [g \in (DOMAIN dir) \ {filename} |-> dir[g]]
    ELSE DictSet(dir, filename, FileOf(outcome, t))

DownloadFromS3(url, filename, outcome, dir, t) ==
    LET pieces == Split(SubSeq(url, 2, Len(url)), "/")
    IN  IF Len(pieces) < 2 \/ outcome \in {"error", "cut"}
        THEN [ok |-> FALSE, dir |-> dir]
        ELSE [ok |-> TRUE, dir |-> Delivered(dir, filename, outcome, t)]

\* Variant of DownloadFromHttp with a slip: a request that failed before a byte
\* was written is reported as complete.
DownloadFromHttp_IgnoresError(url, filename, outcome, dir, t) ==
    IF IsS3Url(url)
    THEN [ok |-> FALSE, dir |-> dir]
    ELSE IF outcome = "error"
         THEN [ok |-> TRUE, dir |-> dir]
         ELSE IF outcome = "cut"
              THEN [ok |-> FALSE, dir |-> DictSet(dir, filename, FileOf(Partial, t))]
              ELSE [ok |-> TRUE, dir |-> Delivered(dir, filename, outcome, t)]

DownloadFromHttp(url, filename, outcome, dir, t) ==
    IF IsS3Url(url) \/ outcome = "error"
    THEN [ok |-> FALSE, dir |-> dir]
    ELSE IF outcome = "cut"
         THEN [ok |-> FALSE, dir |-> DictSet(dir, filename, FileOf(Partial, t))]
         ELSE [ok |-> TRUE, dir |-> Delivered(dir, filename, outcome, t)]

\* download_model, the choice of the transport.
Transport(model_info, hasS3, outcome, dir, t) ==
    IF IsS3Url(model_info.download_url) /\ hasS3
    THEN DownloadFromS3(model_info.download_url, model_info.filename, outcome, dir, t)
    ELSE DownloadFromHttp(model_info.download_url, model_info.filename, outcome, dir, t)

\* download_model, the verification of what the transport left on disk.
VerifyDownload(model_info, dir) ==
    /\ model_info.filename \in DOMAIN dir
    /\ SizeOf(dir[model_info.filename].bytes) = model_info.size
    /\ \/ Get(model_info, "md5", "") = ""
       \/ Md5Of(dir[model_info.filename].bytes) = Get(model_info, "md5", "")

\* Variant of CommitEntry with a slip: models is rebuilt with the new entry
\* alone.
CommitEntry_OnlyEntry(m, filename, dir) ==
    [m EXCEPT !.models = DictSet(EmptyDict, filename, GetModelInfo(filename, dir))]

\* download_model, the manifest entry of a verified artifact.
CommitEntry(m, filename, dir) ==
    [m EXCEPT !.models = DictSet(@, filename, GetModelInfo(filename, dir))]

\* Variants of ManifestAtRequest with a slip: the scan is not installed; the
\* sync time is stamped before the request is made.
ManifestAtRequest_KeepsModels(m, scan) == m
ManifestAtRequest_StampsLastSync(m, scan) ==
    [m EXCEPT !.models = scan, !.last_sync = <<now>>]

\* Variant of ManifestAtRequest with a slip: the scan is merged into the loaded
\* mapping, so that entries of files deleted since survive.
ManifestAtRequest_MergesScan(m, scan) ==
    [m EXCEPT !.models = [f \in (DOMAIN @) \cup (DOMAIN scan) |->
                             IF f \in DOMAIN scan THEN scan[f] ELSE @[f]]]

\* check_for_updates, the manifest when the request is sent.
ManifestAtRequest(m, scan) == [m EXCEPT !.models = scan]

\* check_for_updates, the manifest after a 200 response that parsed.
ManifestAfterResponse(m, t) == [m EXCEPT !.last_sync = <<t>>]

\* Variant of Classify with a slip: a failure does not clear the success flag.
Classify_KeepsSuccess(res, filename, ok) ==
    IF ok
    THEN [res EXCEPT !.downloaded = Append(@, filename)]
    ELSE [res EXCEPT !.failed = Append(@, filename)]

\* sync_models, the loop body after download_model returned.
Classify(res, filename, ok) ==
    IF ok
    THEN [res EXCEPT !.downloaded = Append(@, filename)]
    ELSE [res EXCEPT !.failed = Append(@, filename), !.success = FALSE]

\* download_model returned ok for filename and the loop body has run.
Returned(filename, ok) ==
    /\ results' = Classify(results, filename, ok)
    /\ calls' = Append(calls, <<filename, ok>>)
    /\ todo' = todo - 1
    /\ pc' = "loop"

(***************************************************************************)
(* The /sync-models endpoint (and main): a new ModelSynchronizer, which    *)
(* loads the manifest and tries to create the S3 client.                   *)
(***************************************************************************)
Start(hasS3) ==
    /\ pc = "idle"
    /\ runs < MaxRuns
    /\ runs' = runs + 1
    /\ now' = now + 1
    /\ manifest' = LoadManifest(mfile)
    /\ s3_client' = hasS3
    /\ pc' = "check"
    /\ UNCHANGED <<files, mfile, update_info, todo, cur, saving, results, result,
                   calls>>
    /\ UNCHANGED handlers

\* check_for_updates up to the call of _save_manifest (or to its return, when
\* the negotiation failed).
CheckForUpdates(resp) ==
    /\ pc = "check"
    /\ LET m1 == ManifestAtRequest(manifest, GetCurrentModels(files))
       IN  IF resp.kind = "ok"
           THEN /\ manifest' = ManifestAfterResponse(m1, now)
                /\ update_info' = resp.body
                /\ saving' = "neg"
                /\ pc' = "save_open"
           ELSE /\ manifest' = m1
                /\ update_info' = [success |-> FALSE, error |-> resp.kind]
                /\ saving' = saving
                /\ pc' = "checked"
    /\ calls' = <<>>
    /\ UNCHANGED <<files, mfile, now, runs, s3_client, todo, cur, results, result>>
    /\ UNCHANGED handlers

\* _save_manifest returns to its caller: check_for_updates, which returns
\* update_info, or download_model, which returns True to the loop.
SaveReturns ==
    /\ saving' = "none"
    /\ cur' = EmptyDict
    /\ IF saving = "neg"
       THEN /\ pc' = "checked"
            /\ UNCHANGED <<results, calls, todo>>
       ELSE Returned(cur.filename, TRUE)

\* _save_manifest: open(self.manifest_file, 'w') truncates the file, or raises
\* and the error is logged.
SaveOpen(ok) ==
    /\ pc = "save_open"
    /\ IF ok
       THEN /\ mfile' = Truncated
            /\ pc' = "save_write"
            /\ UNCHANGED <<saving, cur, results, calls, todo>>
       ELSE /\ mfile' = mfile
            /\ SaveReturns
    /\ UNCHANGED <<files, now, runs, manifest, s3_client, update_info, result>>
    /\ UNCHANGED handlers

\* _save_manifest: json.dump writes the document, or raises part-way and the
\* error is logged.
SaveWrite(ok) ==
    /\ pc = "save_write"
    /\ mfile' = IF ok THEN JsonDump(manifest) ELSE mfile
    /\ SaveReturns
    /\ UNCHANGED <<files, now, runs, manifest, s3_client, update_info, result>>
    /\ UNCHANGED handlers

\* Variant of SyncDecide with a slip: update_info['updates'] is read without
\* a default, so a reply without the field raises and the run fails.
SyncDecide_RequiresUpdates ==
    /\ pc = "checked"
    /\ IF ~Get(update_info, "success", FALSE)
       THEN /\ result' = update_info
            /\ pc' = "done"
            /\ UNCHANGED <<results, todo>>
       ELSE IF "updates" \notin DOMAIN update_info
            THEN /\ result' = [success |-> FALSE, error |-> "exception"]
                 /\ pc' = "done"
                 /\ UNCHANGED <<results, todo>>
            ELSE IF update_info.updates = 0
                 THEN /\ result' = [success |-> TRUE, message |-> "No updates available"]
                      /\ pc' = "done"
                      /\ UNCHANGED <<results, todo>>
                 ELSE /\ results' = [success |-> TRUE, downloaded |-> <<>>, failed |-> <<>>]
                      /\ todo' = update_info.updates
                      /\ pc' = "loop"
                      /\ UNCHANGED result
    /\ UNCHANGED <<files, mfile, now, runs, manifest, s3_client, update_info, cur,
                   saving, calls, handlers>>

\* sync_models after check_for_updates returned.
SyncDecide ==
    /\ pc = "checked"
    /\ IF ~Get(update_info, "success", FALSE)
       THEN /\ result' = update_info
            /\ pc' = "done"
            /\ UNCHANGED <<results, todo>>
       ELSE IF Get(update_info, "updates", 0) = 0
            THEN /\ result' = [success |-> TRUE, message |-> "No updates available"]
                 /\ pc' = "done"
                 /\ UNCHANGED <<results, todo>>
            ELSE /\ results' = [success |-> TRUE, downloaded |-> <<>>, failed |-> <<>>]
                 /\ todo' = update_info.updates
                 /\ pc' = "loop"
                 /\ UNCHANGED result
    /\ UNCHANGED <<files, mfile, now, runs, manifest, s3_client, update_info, cur,
                   saving, calls>>
    /\ UNCHANGED handlers

\* Variant of DownloadModel with a slip: a file that fails the verification is
\* removed from the directory.
DownloadModel_RemovesRejected(model_info, outcome) ==
    /\ pc = "loop"
    /\ todo > 0
    /\ IF "filename" \notin DOMAIN model_info
       THEN /\ outcome = "error"
            /\ result' = [success |-> FALSE, error |-> "exception"]
            /\ todo' = todo - 1
            /\ pc' = "done"
            /\ UNCHANGED <<files, manifest, cur, saving, results, calls>>
       ELSE IF "download_url" \notin DOMAIN model_info \/ "size" \notin DOMAIN model_info
            THEN /\ outcome = "error"
                 /\ Returned(model_info.filename, FALSE)
                 /\ UNCHANGED <<files, manifest, cur, saving, result>>
            ELSE LET t == Transport(model_info, s3_client, outcome, files, now)
                 IN  IF t.ok /\ VerifyDownload(model_info, t.dir)
                     THEN /\ files' = t.dir
                          /\ manifest' = CommitEntry(manifest, model_info.filename, t.dir)
                          /\ cur' = model_info
                          /\ saving' = "commit"
                          /\ pc' = "save_open"
                          /\ UNCHANGED <<results, calls, todo, result>>
                     ELSE /\ files' = [g \in (DOMAIN t.dir) \ {model_info.filename} |-> t.dir[g]]
                          /\ Returned(model_info.filename, FALSE)
                          /\ UNCHANGED <<manifest, cur, saving, result>>
    /\ UNCHANGED <<mfile, now, runs, s3_client, update_info>>
    /\ UNCHANGED handlers

(***************************************************************************)
(* One iteration of the loop of sync_models: download_model on the next    *)
(* entry, up to its return or to its call of _save_manifest.  A missing    *)
(* "filename" raises KeyError, and again in the handler's log line, so the *)
(* exception leaves download_model and ends the run in the handler of      *)
(* sync_models.                                                            *)
(***************************************************************************)
DownloadModel(model_info, outcome) ==
    /\ pc = "loop"
    /\ todo > 0
    /\ IF "filename" \notin DOMAIN model_info
       THEN /\ outcome = "error"
            /\ result' = [success |-> FALSE, error |-> "exception"]
            /\ todo' = todo - 1
            /\ pc' = "done"
            /\ UNCHANGED <<files, manifest, cur, saving, results, calls>>
       ELSE IF "download_url" \notin DOMAIN model_info \/ "size" \notin DOMAIN model_info
            THEN /\ outcome = "error"
                 /\ Returned(model_info.filename, FALSE)
                 /\ UNCHANGED <<files, manifest, cur, saving, result>>
            ELSE LET t == Transport(model_info, s3_client, outcome, files, now)
                 IN  /\ files' = t.dir
                     /\ IF t.ok /\ VerifyDownload(model_info, t.dir)
                        THEN /\ manifest' = CommitEntry(manifest, model_info.filename, t.dir)
                             /\ cur' = model_info
                             /\ saving' = "commit"
                             /\ pc' = "save_open"
                             /\ UNCHANGED <<results, calls, todo, result>>
                        ELSE /\ Returned(model_info.filename, FALSE)
                             /\ UNCHANGED <<manifest, cur, saving, result>>
    /\ UNCHANGED <<mfile, now, runs, s3_client, update_info>>
    /\ UNCHANGED handlers

\* sync_models returns results once the list is exhausted.
SyncReturn ==
    /\ pc = "loop"
    /\ todo = 0
    /\ result' = results
    /\ pc' = "done"
    /\ UNCHANGED <<files, mfile, now, runs, manifest, s3_client, update_info, todo,
                   cur, saving, results, calls>>
    /\ UNCHANGED handlers

\* The endpoint has sent the result; the instance is dropped.
Finish ==
    /\ pc = "done"
    /\ pc' = "idle"
    /\ ResetInstance
    /\ UNCHANGED <<files, mfile, now, runs, calls>>
    /\ UNCHANGED handlers

\* The process is killed during a run; only the disk survives.
Crash ==
    /\ pc \notin {"idle", "done"}
    /\ pc' = "idle"
    /\ ResetInstance
    /\ UNCHANGED <<files, mfile, now, runs, calls>>
    /\ UNCHANGED handlers

\* A file is deleted from the artifact directory by hand between two runs.
RemoveFile(f) ==
    /\ pc = "idle"
    /\ f \in DOMAIN files
    /\ files' = [g \in (DOMAIN files) \ {f} |-> files[g]]
    /\ UNCHANGED <<mfile, now, runs, pc, manifest, s3_client, update_info, todo, cur,
                   saving, results, result, calls>>
    /\ UNCHANGED handlers

Next ==
    \/ \E hasS3 \in BOOLEAN : Start(hasS3)
    \/ \E resp \in Responses : CheckForUpdates(resp)
    \/ \E ok \in BOOLEAN : SaveOpen(ok)
    \/ \E ok \in BOOLEAN : SaveWrite(ok)
    \/ SyncDecide
    \/ \E model_info \in ModelInfos, outcome \in TransportOutcomes :
           DownloadModel(model_info, outcome)
    \/ SyncReturn
    \/ Finish
    \/ Crash
    \/ \E f \in Filenames : RemoveFile(f)

Spec == Init /\ [][Next]_vars

(***************************************************************************)
(* get_current_models on its own: the directory is any set of files, some  *)
(* of them unreadable, some with names that are no language pair, some     *)
(* that are no artifact at all, and the scan is applied to it.             *)
(***************************************************************************)
FNoPair == <<"model", ".", "bin">>
FOther == <<"notes", ".", "txt">>
ScanNames == Filenames \cup {FNoPair, FOther}
UnreadableFile == [bytes |-> "b1", mtime |-> 1, unreadable |-> TRUE]
ScanFiles == {FileOf(b, 1) : b \in Blobs} \cup {UnreadableFile}
ScanDirs == UNION {[names -> ScanFiles] : names \in SUBSET ScanNames}

ScanInit ==
    /\ files \in ScanDirs
    /\ mfile = NoManifestFile
    /\ now = 1
    /\ runs = 1
    /\ pc = "scan"
    /\ manifest = EmptyManifest
    /\ s3_client = FALSE
    /\ update_info = EmptyDict
    /\ todo = 0
    /\ cur = EmptyDict
    /\ saving = "none"
    /\ results = EmptyDict
    /\ result = EmptyDict
    /\ calls = <<>>
    /\ handlers = EmptyDict

\* check_for_updates, the scan and its installation in the manifest.
Scan ==
    /\ pc = "scan"
    /\ manifest' = ManifestAtRequest(manifest, GetCurrentModels(files))
    /\ pc' = "scanned"
    /\ UNCHANGED <<files, mfile, now, runs, s3_client, update_info, todo, cur,
                   saving, results, result, calls>>
    /\ UNCHANGED handlers

ScanNext == Scan

ScanSpec == ScanInit /\ [][ScanNext]_vars


(***************************************************************************)
(* What the claims speak about.                                            *)
(***************************************************************************)

\* The manifest a restart would load from the disk as it is.
Persisted == LoadManifest(mfile)
PersistedNext == LoadManifest(mfile')

\* The step is a download_model call on model_info whose transport reported
\* completion.
TransportCompleted(model_info, outcome) ==
    /\ "filename" \in DOMAIN model_info
    /\ "download_url" \in DOMAIN model_info
    /\ "size" \in DOMAIN model_info
    /\ Transport(model_info, s3_client, outcome, files, now).ok

\* The file the step leaves at artifactDirectory/filename matches what
\* model_info declares.
MatchesDeclared(model_info) ==
    /\ model_info.filename \in DOMAIN files'
    /\ SizeOf(files'[model_info.filename].bytes) = model_info.size
    /\ \/ "md5" \notin DOMAIN model_info
       \/ Md5Of(files'[model_info.filename].bytes) = model_info.md5

\* The step is the return of download_model with this value for filename.
ReturnsTo(filename, value) == calls' = Append(calls, <<filename, value>>)

\* The filenames of the calls that returned value, in call order.
RECURSIVE Outcome(_, _)
Outcome(cs, value) ==
    IF cs = <<>> THEN <<>>
    ELSE IF Head(cs)[2] = value
         THEN <<Head(cs)[1]>> \o Outcome(Tail(cs), value)
         ELSE Outcome(Tail(cs), value)

\* The run negotiated successfully and got a non-empty update list.
NegotiatedUpdates ==
    /\ Get(update_info, "success", FALSE)
    /\ Get(update_info, "updates", 0) > 0

(***************************************************************************)
(* C1.  After download_model returns False for an UpdateSpec because the   *)
(* verification failed (file missing, size differs, supplied hash          *)
(* differs), the manifest, in memory and as persisted, has no models entry *)
(* for that filename.                                                      *)
(***************************************************************************)
C1_FailedVerificationLeavesNoEntry ==
    [][\A model_info \in UpdateSpecs, outcome \in TransportOutcomes :
          ( /\ DownloadModel(model_info, outcome)
            /\ TransportCompleted(model_info, outcome)
            /\ ~MatchesDeclared(model_info)
            /\ ReturnsTo(model_info.filename, FALSE) )
          => /\ model_info.filename \notin DOMAIN manifest'.models
             /\ model_info.filename \notin DOMAIN PersistedNext.models]_vars


(***************************************************************************)
(* C2.  For every update list of a successful negotiation, sync_models     *)
(* passes every entry to download_model and returns `downloaded` as the    *)
(* filenames whose call returned True and `failed` as those whose call     *)
(* returned False, both in list order.                                     *)
(***************************************************************************)
C2_EveryEntryClassified ==
    (pc = "done" /\ NegotiatedUpdates)
    => /\ "downloaded" \in DOMAIN result
       /\ "failed" \in DOMAIN result
       /\ Len(calls) = update_info.updates
       /\ result.downloaded = Outcome(calls, TRUE)
       /\ result.failed = Outcome(calls, FALSE)

(***************************************************************************)
(* C3.  In every result sync_models returns after a successful negotiation *)
(* with a non-empty update list, success is true if and only if the result *)
(* carries a `failed` list and that list is empty.                         *)
(***************************************************************************)
C3_SuccessIffNoFailure ==
    (pc = "done" /\ NegotiatedUpdates)
    => (result.success <=> ("failed" \in DOMAIN result /\ result.failed = <<>>))

\* A run that verified one artifact and failed another has returned.
C3_Witness ==
    /\ pc = "done"
    /\ NegotiatedUpdates
    /\ "failed" \in DOMAIN result
    /\ Len(result.failed) = 1
    /\ Len(result.downloaded) = 1
    /\ ~result.success

(***************************************************************************)
(* C4.  If the process is killed between the transport writing an          *)
(* artifact's bytes and download_model committing the manifest entry, the  *)
(* manifest a restart loads has no entry for that artifact, and holds no   *)
(* entry whose recorded hash differs from the hash of the file on disk.    *)
(***************************************************************************)
C4_CrashBeforeCommitLeavesNoEntry ==
    [][( /\ pc \in {"save_open", "save_write"}
         /\ saving = "commit"
         /\ Crash )
       => /\ cur.filename \notin DOMAIN PersistedNext.models
          /\ \A f \in DOMAIN PersistedNext.models :
                f \in DOMAIN files'
                => PersistedNext.models[f].md5 = Md5Of(files'[f].bytes)]_vars

(***************************************************************************)
(* C5.  Every step of _save_manifest, a kill or a write error during it    *)
(* included, leaves the manifest file holding either the complete previous *)
(* manifest or the complete new one.                                       *)
(***************************************************************************)
C5_SaveNeverLeavesPartialFile ==
    [][(pc \in {"save_open", "save_write"})
       => (mfile' = mfile \/ mfile' = JsonDump(manifest))]_vars

(***************************************************************************)
(* C6.  download_model returns True exactly when the transport reported    *)
(* completion, the file exists, its size is the declared one and the       *)
(* declared hash, if any, is the file's; in every other case it returns    *)
(* False.                                                                  *)
(***************************************************************************)
C6_ReturnsTrueExactlyWhenVerified ==
    [][ /\ \A model_info \in ModelInfos, outcome \in TransportOutcomes :
              DownloadModel(model_info, outcome)
              => IF TransportCompleted(model_info, outcome) /\ MatchesDeclared(model_info)
                 THEN pc' = "save_open" /\ saving' = "commit" /\ cur' = model_info
                 ELSE /\ Len(calls') = Len(calls) + 1
                      /\ calls'[Len(calls')][2] = FALSE
        /\ (pc \in {"save_open", "save_write"} /\ saving = "commit" /\ pc' = "loop")
              => ReturnsTo(cur.filename, TRUE) ]_vars

(***************************************************************************)
(* C7.  For every UpdateSpec with declared size S and hash H whose         *)
(* downloaded bytes have size S and hash H, whatever the filename          *)
(* (variant suffix included), the manifest entry written for it has        *)
(* size = S and md5 = H.                                                   *)
(***************************************************************************)
C7_EntryEqualsDeclared ==
    [][\A model_info \in UpdateSpecs, outcome \in TransportOutcomes :
          ( /\ DownloadModel(model_info, outcome)
            /\ "md5" \in DOMAIN model_info
            /\ TransportCompleted(model_info, outcome)
            /\ MatchesDeclared(model_info) )
          => /\ model_info.filename \in DOMAIN manifest'.models
             /\ manifest'.models[model_info.filename].size = model_info.size
             /\ manifest'.models[model_info.filename].md5 = model_info.md5]_vars

(***************************************************************************)
(* C8.  As claimed: on a non-success response code check_for_updates       *)
(* returns {success: false, error} and the manifest's models, last_sync    *)
(* and device_id are what they were before the call.                       *)
(***************************************************************************)
C8_FailureLeavesManifestUnchanged ==
    [][\A resp \in Responses :
          (resp.kind = "status" /\ CheckForUpdates(resp))
          => /\ pc' = "checked"
             /\ update_info' = [success |-> FALSE, error |-> "status"]
             /\ manifest'.models = manifest.models
             /\ manifest'.last_sync = manifest.last_sync
             /\ manifest'.device_id = manifest.device_id]_vars

(***************************************************************************)
(* C8, amended.  On a non-success response code check_for_updates returns  *)
(* {success: false, error}; the manifest file is not written, last_sync    *)
(* and device_id are what they were before the call, and the in-memory     *)
(* models mapping is the scan of the directory taken before the request.   *)
(***************************************************************************)
C8_FailureLeavesPersistedManifest ==
    [][\A resp \in Responses :
          (resp.kind = "status" /\ CheckForUpdates(resp))
          => /\ pc' = "checked"
             /\ update_info' = [success |-> FALSE, error |-> "status"]
             /\ mfile' = mfile
             /\ manifest'.last_sync = manifest.last_sync
             /\ manifest'.device_id = manifest.device_id
             /\ manifest'.models = GetCurrentModels(files)]_vars

\* check_for_updates has returned a status failure, on a directory that holds
\* a file the persisted manifest does not list.
C8_Witness ==
    /\ pc = "checked"
    /\ Get(update_info, "error", "") = "status"
    /\ DOMAIN manifest.models # DOMAIN Persisted.models

(***************************************************************************)
(* C9.  When the negotiation call times out or raises, sync_models returns *)
(* a result with success false and an error, and last_sync, in memory and  *)
(* as persisted, is what it was before the call.                           *)
(***************************************************************************)
C9_NegotiationErrorKeepsLastSync ==
    [][ /\ \A resp \in Responses :
              (resp.kind \in {"raise", "badjson"} /\ CheckForUpdates(resp))
              => /\ pc' = "checked"
                 /\ update_info' = [success |-> FALSE, error |-> resp.kind]
                 /\ manifest'.last_sync = manifest.last_sync
                 /\ PersistedNext.last_sync = Persisted.last_sync
        /\ (SyncDecide /\ Get(update_info, "error", "") \in {"raise", "badjson"})
              => /\ pc' = "done"
                 /\ result'.success = FALSE
                 /\ "error" \in DOMAIN result'
                 /\ manifest'.last_sync = manifest.last_sync
                 /\ PersistedNext.last_sync = Persisted.last_sync ]_vars

\* sync_models has returned the failure of a negotiation call that raised, in
\* a run that started with a last_sync from an earlier run.
C9_Witness ==
    /\ pc = "done"
    /\ Get(result, "error", "") = "raise"
    /\ manifest.last_sync # <<>>
    /\ manifest.last_sync = Persisted.last_sync

(***************************************************************************)
(* C10.  On every successful negotiation, one with zero updates included,  *)
(* when check_for_updates returns the manifest's last_sync is the current  *)
(* time and the manifest file holds the manifest.                          *)
(***************************************************************************)
C10_LastSyncAdvancedAndPersisted ==
    (pc = "checked" /\ Get(update_info, "success", FALSE))
    => /\ manifest.last_sync = <<now>>
       /\ mfile = JsonDump(manifest)

(***************************************************************************)
(* C11.  When the negotiation succeeds with an empty update list,          *)
(* sync_models returns a result with success true, `downloaded` the empty  *)
(* list and `failed` the empty list.                                       *)
(***************************************************************************)
C11_EmptyListGivesEmptyResult ==
    ( /\ pc = "done"
      /\ Get(update_info, "success", FALSE)
      /\ Get(update_info, "updates", 0) = 0 )
    => /\ Get(result, "success", FALSE)
       /\ "downloaded" \in DOMAIN result
       /\ "failed" \in DOMAIN result
       /\ Get(result, "downloaded", <<>>) = <<>>
       /\ Get(result, "failed", <<>>) = <<>>

(***************************************************************************)
(* C12.  When _save_manifest fails to write the file, after the            *)
(* negotiation or after a verified artifact, the failure reaches the       *)
(* caller: check_for_updates does not hand a successful negotiation to     *)
(* sync_models, and download_model does not return True, so that the       *)
(* artifact is not listed in `downloaded`.                                 *)
(***************************************************************************)
C12_PersistenceFailureSurfaced ==
    [][\A ok \in BOOLEAN :
          ( /\ SaveOpen(ok) \/ SaveWrite(ok)
            /\ pc' \in {"checked", "loop"}
            /\ mfile' # JsonDump(manifest) )
          => /\ saving = "neg" => ~Get(update_info', "success", FALSE)
             /\ saving = "commit"
                   => /\ ~ReturnsTo(cur.filename, TRUE)
                      /\ ~Get(results', "success", FALSE) ]_vars

(***************************************************************************)
(* C13.  A failure local to one artifact never stops the batch: whatever   *)
(* the UpdateSpec (a missing field such as filename included) and whatever *)
(* the transport does, the download_model call leaves sync_models inside   *)
(* its loop with the later entries still to come, and the result it        *)
(* finally returns carries `downloaded` and `failed`.                      *)
(***************************************************************************)
C13_LocalFailureNeverStopsBatch ==
    [][ /\ \A model_info \in ModelInfos, outcome \in TransportOutcomes :
              DownloadModel(model_info, outcome)
              => /\ pc' \in {"loop", "save_open"}
                 /\ result' = result
                 /\ pc' = "loop" => todo' = todo - 1
        /\ (pc = "loop" /\ pc' = "done")
              => /\ todo = 0
                 /\ "downloaded" \in DOMAIN result'
                 /\ "failed" \in DOMAIN result' ]_vars

\* The latest download_model call for filename f returned False.
FailedLast(cs, f) ==
    \E i \in 1..Len(cs) :
       /\ cs[i] = <<f, FALSE>>
       /\ \A j \in (i + 1)..Len(cs) : cs[j][1] # f

(***************************************************************************)
(* C14.  A failed artifact remains absent from the manifest across runs:   *)
(* when download_model returned False for a filename in one run and the    *)
(* persisted manifest has no entry for it, the models mapping the next     *)
(* run's check_for_updates builds and sends has no entry for it either,    *)
(* whatever the failed transfer left on disk.                              *)
(***************************************************************************)
C14_FailedArtifactStaysAbsent ==
    [][\A resp \in Responses, f \in Filenames :
          ( /\ CheckForUpdates(resp)
            /\ FailedLast(calls, f)
            /\ f \notin DOMAIN Persisted.models )
          => f \notin DOMAIN manifest'.models ]_vars

\* The file can give no record: it cannot be read, or its name has no
\* language pair at all.
BadArtifact(f, dir) ==
    ~Readable(dir[f]) \/ Len(Split(Split(f, ".")[1], "-")) < 2

\* Every key of the in-memory models mapping names a file of the directory.
EveryEntryHasFile(m, dir) == \A f \in DOMAIN m.models : f \in DOMAIN dir

(***************************************************************************)
(* C15.  Every key of the manifest's models mapping names a file that      *)
(* exists in the artifact directory, in every state the engine reaches:    *)
(* the load and the negotiation establish it, and a download, succeeded or *)
(* failed, that finds it and during which no file is deleted by hand       *)
(* keeps it.                                                               *)
(***************************************************************************)
C15_EveryEntryHasFile ==
    [][ /\ \A hasS3 \in BOOLEAN :
              Start(hasS3) => EveryEntryHasFile(manifest', files')
        /\ \A resp \in Responses :
              CheckForUpdates(resp) => EveryEntryHasFile(manifest', files')
        /\ \A model_info \in ModelInfos, outcome \in TransportOutcomes \ {Gone} :
              (DownloadModel(model_info, outcome) /\ EveryEntryHasFile(manifest, files))
              => EveryEntryHasFile(manifest', files') ]_vars

(***************************************************************************)
(* C16.  The scan lists a filename only if the file is on disk at scan     *)
(* time, and the models mapping check_for_updates installs in the manifest *)
(* is that scan: a file the manifest recorded and that was deleted since   *)
(* is in neither.  (The steps from "check" to "save_open" or "checked" are  *)
(* those of CheckForUpdates.)                                              *)
(***************************************************************************)
C16_ScanReflectsDisk ==
    [][(pc = "check" /\ pc' \in {"save_open", "checked"})
       => /\ \A f \in DOMAIN GetCurrentModels(files) : f \in DOMAIN files
          /\ \A f \in Filenames :
                f \notin DOMAIN files => f \notin DOMAIN manifest'.models ]_vars

\* check_for_updates has returned in a run that loaded a manifest listing a
\* file deleted since: the file is still listed on disk's manifest, not in
\* memory.
C16_Witness ==
    /\ pc = "checked"
    /\ \E f \in DOMAIN Persisted.models :
          f \notin DOMAIN files /\ f \notin DOMAIN manifest.models

(***************************************************************************)
(* C19.  _load_manifest returns the persisted manifest when the file       *)
(* exists and parses, and otherwise (no file, or a file that does not      *)
(* parse) the empty manifest: models = {}, last_sync = None and a          *)
(* device_id; the constructor goes on to check_for_updates in both cases.  *)
(***************************************************************************)
C19_LoadNeverAborts ==
    [][\A hasS3 \in BOOLEAN :
          Start(hasS3)
          => /\ pc' = "check"
             /\ mfile.kind = "json" => manifest' = mfile.doc
             /\ mfile.kind # "json"
                   => /\ manifest'.models = EmptyDict
                      /\ manifest'.last_sync = <<>>
                      /\ manifest'.device_id = DeviceId ]_vars

\* A run has started on a manifest file that an interrupted save left
\* truncated, after an earlier run had persisted a sync time.
C19_Witness ==
    /\ pc = "check"
    /\ runs > 1
    /\ mfile.kind = "truncated"
    /\ manifest = EmptyManifest

(***************************************************************************)
(* C20.  Whatever the negotiation outcome and the per-artifact outcomes,   *)
(* the result sync_models returns carries a success flag.                  *)
(***************************************************************************)
C20_ResultCarriesSuccessFlag ==
    pc = "done" => "success" \in DOMAIN result

(***************************************************************************)
(* C17.  The scan is best-effort per file: get_current_models returns one  *)
(* record for every artifact file present; a file that cannot be read or   *)
(* whose name is malformed gets a record with an error marker, and the     *)
(* record of every file is the one it would get were it alone in the       *)
(* directory.                                                              *)
(***************************************************************************)
C17_ScanIsBestEffort ==
    pc = "scanned"
    => /\ DOMAIN manifest.models = {f \in DOMAIN files : EndsWithBin(f)}
       /\ \A f \in DOMAIN manifest.models :
             /\ manifest.models[f].filename = f
             /\ BadArtifact(f, files) => "error" \in DOMAIN manifest.models[f]
             /\ manifest.models[f] = GetModelInfo(f, [g \in {f} |-> files[f]])

\* A directory with an unreadable artifact, a name without a language pair
\* and a readable en-es.bin has been scanned, and en-es.bin has its record.
C17_Witness ==
    /\ pc = "scanned"
    /\ \E f \in DOMAIN files : EndsWithBin(f) /\ ~Readable(files[f])
    /\ FNoPair \in DOMAIN files
    /\ FOther \in DOMAIN files
    /\ FPair \in DOMAIN manifest.models
    /\ "error" \notin DOMAIN manifest.models[FPair]

(***************************************************************************)
(* C18.  For every readable file named <source>-<target>[-<variant>].bin,  *)
(* with or without the variant part, the scan record carries the file's    *)
(* size, modification time and hash and the source and target language of  *)
(* the name, and is no error record.                                       *)
(***************************************************************************)
C18_ConventionalNameGetsFullRecord ==
    pc = "scanned"
    => \A f \in Filenames \cap DOMAIN files :
          Readable(files[f])
          => /\ "error" \notin DOMAIN manifest.models[f]
             /\ manifest.models[f].size = SizeOf(files[f].bytes)
             /\ manifest.models[f].modified = files[f].mtime
             /\ manifest.models[f].md5 = Md5Of(files[f].bytes)
             /\ Get(manifest.models[f], "source_language", <<>>) = <<f[1]>>
             /\ Get(manifest.models[f], "target_language", <<>>) = <<f[3]>>

(***************************************************************************)
(* C21.  The transport is chosen by the download URL alone: download_model *)
(* uses the object-storage transport for every UpdateSpec whose            *)
(* download_url starts with s3:// and the HTTP transport for every other   *)
(* one.                                                                    *)
(***************************************************************************)
C21_TransportChosenByUrl ==
    [][(pc = "loop")
       => \A model_info \in UpdateSpecs, outcome \in TransportOutcomes :
             DownloadModel(model_info, outcome)
             => Transport(model_info, s3_client, outcome, files, now)
                   = IF IsS3Url(model_info.download_url)
                     THEN DownloadFromS3(model_info.download_url,
                                         model_info.filename, outcome, files, now)
                     ELSE DownloadFromHttp(model_info.download_url,
                                           model_info.filename, outcome, files, now) ]_vars

\* The transfer of model_info fails at the transport: the request fails or is
\* cut (timeout, connection or authorization failure), or the locator cannot
\* be parsed.
TransportError(model_info, outcome) ==
    outcome \in {"error", "cut"} \/ model_info \in UnparsableSpecs

\* The step is a return of download_model with False that leaves the manifest,
\* in memory and on disk, as it was.
ReturnsFalseUnchanged ==
    /\ Len(calls') = Len(calls) + 1
    /\ SubSeq(calls', 1, Len(calls)) = calls
    /\ ~calls'[Len(calls')][2]
    /\ manifest' = manifest
    /\ mfile' = mfile

(***************************************************************************)
(* C22.  Whichever transport is used, a transport-level error (timeout,    *)
(* connection failure, authorization failure, unparsable locator) makes    *)
(* download_model return False, and leaves the manifest, in memory and on  *)
(* disk, as it was: a step of the loop that is anything else is no         *)
(* download_model call with a transport error.  (A step that enters        *)
(* _save_manifest can only be the call on the entry it is saving, cur.)    *)
(***************************************************************************)
C22_TransportErrorReturnsFalse ==
    [][(pc = "loop" /\ ~ReturnsFalseUnchanged)
       => \A model_info \in (IF pc' = "save_open" THEN {cur'}
                              ELSE UpdateSpecs \cup UnparsableSpecs),
             outcome \in TransportOutcomes :
             TransportError(model_info, outcome) => ~DownloadModel(model_info, outcome) ]_vars

\* A transfer was cut after some bytes: download_model has returned False and
\* the manifest has no entry for the partial file.
C22_Witness ==
    /\ pc = "loop"
    /\ calls # <<>>
    /\ LET f == calls[Len(calls)][1]
       IN  /\ ~calls[Len(calls)][2]
           /\ f \in DOMAIN files
           /\ files[f].bytes = Partial
           /\ f \notin DOMAIN manifest.models
           /\ mfile = JsonDump(manifest)

(***************************************************************************)
(* C23.  sync_models never retries within one run: download_model is       *)
(* invoked exactly once per entry of the negotiated update list, in list   *)
(* order.  Each call takes the next entry of the list, one and no more,    *)
(* and when sync_models returns no entry is left that was not passed to    *)
(* download_model.                                                         *)
(***************************************************************************)
C23_OneCallPerEntry ==
    [][ /\ (pc = "loop" /\ pc' = "loop") => todo' = todo - 1
        /\ (pc = "loop" /\ pc' = "save_open") => todo' = todo
        /\ (pc \in {"save_open", "save_write"} /\ saving = "commit" /\ pc' = "loop")
              => todo' = todo - 1
        /\ (pc # "done" /\ pc' = "done" /\ Get(update_info, "success", FALSE))
              => todo' = 0 ]_vars

(***************************************************************************)
(* A device whose manifest file was provisioned with an identifier of its  *)
(* own, the DEVICE_ID environment variable being unset: _load_manifest     *)
(* reads the identifier from the file.                                     *)
(***************************************************************************)
ProvisionedId == "dev1"

ProvisionedInit ==
    /\ files = EmptyDict
    /\ mfile = JsonDump([EmptyManifest EXCEPT !.device_id = ProvisionedId])
    /\ now = 0
    /\ runs = 0
    /\ pc = "idle"
    /\ manifest = EmptyManifest
    /\ s3_client = FALSE
    /\ update_info = EmptyDict
    /\ todo = 0
    /\ cur = EmptyDict
    /\ saving = "none"
    /\ results = EmptyDict
    /\ result = EmptyDict
    /\ calls = <<>>
    /\ handlers = EmptyDict

ProvisionedSpec == ProvisionedInit /\ [][Next]_vars

(***************************************************************************)
(* C24.  The device identifier is stable: no operation of the engine       *)
(* changes the manifest's device_id, so whenever the manifest file holds a *)
(* manifest, after any sequence of runs, its device_id is the one the      *)
(* first run loaded.                                                       *)
(***************************************************************************)
C24_DeviceIdStable ==
    mfile.kind = "json" => mfile.doc.device_id = ProvisionedId

(***************************************************************************)
(* The /sync-models endpoint of one process.  app.run serves each request  *)
(* in a thread of its own; the handler builds a ModelSynchronizer of its   *)
(* own on the one manifest file and calls sync_models, and takes no lock.  *)
(* The handler reads the manifest file, negotiates, writes the file in the *)
(* two steps of _save_manifest, downloads the one artifact of its update   *)
(* list (or finds the list empty), writes the file again when the artifact *)
(* verified, and responds.                                                 *)
(***************************************************************************)
MaxRequests == 2

Requests == 1..MaxRequests

\* The entries the catalog sends to a request.
EndpointEntries ==
    [filename : Filenames, download_url : {UrlHttp}, size : {1}, md5 : {"h1"}]

\* What the transport of a request does: it fails or delivers the bytes.
EndpointOutcomes == {"error", "b1"}

\* A request not yet received: position, synchronizer.manifest, the caller of
\* _save_manifest, and the artifacts its download_model returned True for.
NewHandler ==
    [pc |-> "new", manifest |-> EmptyManifest, saving |-> "none", downloaded |-> {}]

EndpointInit ==
    /\ files = EmptyDict
    /\ mfile = NoManifestFile
    /\ now = 0
    /\ runs = 0
    /\ pc = "idle"
    /\ manifest = EmptyManifest
    /\ s3_client = FALSE
    /\ update_info = EmptyDict
    /\ todo = 0
    /\ cur = EmptyDict
    /\ saving = "none"
    /\ results = EmptyDict
    /\ result = EmptyDict
    /\ calls = <<>>
    /\ handlers = [r \in Requests |-> NewHandler]

EndpointUnchanged ==
    UNCHANGED <<runs, pc, manifest, s3_client, update_info, todo, cur, saving,
                results, result, calls>>

\* The request reaches the handler, which constructs its synchronizer:
\* _load_manifest reads the manifest file.
Accept(r) ==
    /\ handlers[r].pc = "new"
    /\ now' = now + 1
    /\ handlers' = [handlers EXCEPT ![r].pc = "check",
                                    ![r].manifest = LoadManifest(mfile)]
    /\ UNCHANGED <<files, mfile>>
    /\ EndpointUnchanged

\* check_for_updates of the request's synchronizer, answered with 200, up to
\* its call of _save_manifest.
HandlerCheck(r) ==
    /\ handlers[r].pc = "check"
    /\ handlers' = [handlers EXCEPT
                       ![r].pc = "save_open",
                       ![r].saving = "neg",
                       ![r].manifest = ManifestAfterResponse(
                                           ManifestAtRequest(handlers[r].manifest,
                                                             GetCurrentModels(files)),
                                           now)]
    /\ UNCHANGED <<files, mfile, now>>
    /\ EndpointUnchanged

\* _save_manifest of the request's synchronizer opens the file for writing.
HandlerSaveOpen(r) ==
    /\ handlers[r].pc = "save_open"
    /\ mfile' = Truncated
    /\ handlers' = [handlers EXCEPT ![r].pc = "save_write"]
    /\ UNCHANGED <<files, now>>
    /\ EndpointUnchanged

\* _save_manifest of the request's synchronizer dumps its manifest and returns
\* to check_for_updates, or to download_model, which returns True.
HandlerSaveWrite(r) ==
    /\ handlers[r].pc = "save_write"
    /\ mfile' = JsonDump(handlers[r].manifest)
    /\ handlers' = [handlers EXCEPT
                       ![r].pc = IF handlers[r].saving = "neg" THEN "loop" ELSE "respond",
                       ![r].saving = "none"]
    /\ UNCHANGED <<files, now>>
    /\ EndpointUnchanged

\* sync_models of the request finds no updates.
HandlerNoUpdates(r) ==
    /\ handlers[r].pc = "loop"
    /\ handlers' = [handlers EXCEPT ![r].pc = "respond"]
    /\ UNCHANGED <<files, mfile, now>>
    /\ EndpointUnchanged

\* download_model of the request's synchronizer on the entry of its update
\* list, up to its return False or to its call of _save_manifest.
HandlerDownload(r, model_info, outcome) ==
    /\ handlers[r].pc = "loop"
    /\ LET t == Transport(model_info, FALSE, outcome, files, now)
       IN  /\ files' = t.dir
           /\ IF t.ok /\ VerifyDownload(model_info, t.dir)
              THEN handlers' = [handlers EXCEPT
                                   ![r].pc = "save_open",
                                   ![r].saving = "commit",
                                   ![r].downloaded = @ \cup {model_info.filename},
                                   ![r].manifest = CommitEntry(handlers[r].manifest,
                                                               model_info.filename, t.dir)]
              ELSE handlers' = [handlers EXCEPT ![r].pc = "respond"]
    /\ UNCHANGED <<mfile, now>>
    /\ EndpointUnchanged

\* sync_models returned and the handler sends jsonify(result).
Respond(r) ==
    /\ handlers[r].pc = "respond"
    /\ handlers' = [handlers EXCEPT ![r].pc = "done"]
    /\ UNCHANGED <<files, mfile, now>>
    /\ EndpointUnchanged

EndpointNext ==
    \E r \in Requests :
        \/ Accept(r)
        \/ HandlerCheck(r)
        \/ HandlerSaveOpen(r)
        \/ HandlerSaveWrite(r)
        \/ HandlerNoUpdates(r)
        \/ \E model_info \in EndpointEntries, outcome \in EndpointOutcomes :
               HandlerDownload(r, model_info, outcome)
        \/ Respond(r)

EndpointSpec == EndpointInit /\ [][EndpointNext]_vars

\* The requests whose sync run is active.
ActiveRuns == {r \in DOMAIN handlers : handlers[r].pc \notin {"new", "done"}}

(***************************************************************************)
(* C25.  There is no concurrent access to the manifest file within a       *)
(* process: of the sync runs started through the /sync-models endpoint at  *)
(* most one is active at a time, so their reads and writes of the manifest *)
(* file never interleave.                                                  *)
(***************************************************************************)
C25_AtMostOneActiveRun ==
    Cardinality(ActiveRuns) <= 1

(***************************************************************************)
(* C26.  A sync run never throws away committed progress: when sync_models *)
(* returns, every artifact for which download_model returned True during   *)
(* the run has its entry in the persisted manifest, whatever happened to   *)
(* the later artifacts of the batch.                                       *)
(***************************************************************************)
C26_VerifiedEntriesPersisted ==
    pc = "done"
        => \A i \in 1..Len(calls) :
              calls[i][2] => calls[i][1] \in DOMAIN Persisted.models

(***************************************************************************)
(* C27.  A negotiation response without an `updates` field is treated as   *)
(* an empty update list: sync_models performs no download and returns      *)
(* success.                                                                *)
(***************************************************************************)
C27_AbsentUpdatesIsEmptyList ==
    (/\ pc = "done"
     /\ Get(update_info, "success", FALSE)
     /\ "updates" \notin DOMAIN update_info)
        => /\ Get(result, "success", FALSE)
           /\ calls = <<>>
           /\ todo = 0

C27_Witness ==
    /\ pc = "done"
    /\ update_info = [success |-> TRUE]
    /\ result = [success |-> TRUE, message |-> "No updates available"]
    /\ calls = <<>>

\* The step belongs to a run whose negotiation result is not a success:
\* check_for_updates and its save, then the verbatim return of sync_models.
FailedNegotiationStep ==
    /\ pc \in {"check", "save_open", "save_write", "checked"}
    /\ saving # "commit"
    /\ ~Get(update_info', "success", FALSE)

(***************************************************************************)
(* C28.  Whenever sync_models returns the negotiation's failure verbatim   *)
(* (the negotiation result has success false or absent, an HTTP 200 reply  *)
(* whose body says success false included), the persisted manifest is      *)
(* unchanged from before the run: no step of such a run changes the        *)
(* manifest file, so last_sync is not advanced and models is not           *)
(* rewritten.                                                              *)
(***************************************************************************)
C28_FailedNegotiationLeavesFile ==
    [][FailedNegotiationStep => mfile' = mfile]_vars

(***************************************************************************)
(* C29.  In one sync run the manifest file is written once after a         *)
(* successful negotiation, then once after each individually verified      *)
(* artifact in update-list order, and at no other time: the file changes   *)
(* only inside _save_manifest, called either by a negotiation whose result *)
(* is a success or by download_model for the entry it has just verified;   *)
(* a failed negotiation or a failed artifact causes no manifest write.     *)
(***************************************************************************)
C29_WritesOnlyAfterSuccess ==
    [][ mfile' # mfile
           => /\ pc \in {"save_open", "save_write"}
              /\ saving \in {"neg", "commit"}
              /\ saving = "neg" => /\ Get(update_info, "success", FALSE)
                                   /\ calls = <<>>
              /\ saving = "commit" => /\ NegotiatedUpdates
                                      /\ VerifyDownload(cur, files)
                                      /\ Len(calls) = update_info.updates - todo ]_vars

\* Manifests m and n differ at most in models[f].
SameExceptEntry(m, n, f) ==
    /\ n.last_sync = m.last_sync
    /\ n.device_id = m.device_id
    /\ (DOMAIN n.models) \ {f} = (DOMAIN m.models) \ {f}
    /\ \A g \in (DOMAIN m.models) \ {f} : n.models[g] = m.models[g]

(***************************************************************************)
(* C30.  A verified fetch adds or replaces a single entry: when            *)
(* download_model returns True for filename f, the manifest differs from   *)
(* its state before the call only in models[f], which is present; every    *)
(* other models entry, last_sync and device_id are unchanged, from the     *)
(* verification through the save to the return.                            *)
(***************************************************************************)
C30_VerifiedFetchTouchesOneEntry ==
    [][ /\ (pc = "loop" /\ pc' = "save_open")
           => /\ SameExceptEntry(manifest, manifest', cur'.filename)
              /\ cur'.filename \in DOMAIN manifest'.models
        /\ (pc \in {"save_open", "save_write"} /\ saving = "commit" /\ pc' # "idle")
           => manifest' = manifest ]_vars

C30_Witness ==
    /\ pc = "loop"
    /\ calls # <<>>
    /\ calls[Len(calls)][2]
    /\ \E g \in DOMAIN manifest.models : g # calls[Len(calls)][1]
    /\ calls[Len(calls)][1] \in DOMAIN manifest.models

\* last_sync of manifest m as a number; None, the value of a manifest that
\* never negotiated, comes before every time.
LastSyncOf(m) == IF m.last_sync = <<>> THEN 0 ELSE m.last_sync[1]

(***************************************************************************)
(* C31.  Downloads do not move last_sync: when a run whose negotiation     *)
(* succeeded returns, the persisted last_sync is the time that negotiation *)
(* set, whatever the outcomes of the artifacts were; and across any        *)
(* sequence of runs the persisted last_sync never decreases.               *)
(***************************************************************************)
C31_DownloadsDoNotMoveLastSync ==
    [][ /\ (pc' = "done" /\ Get(update_info', "success", FALSE))
           => PersistedNext.last_sync = <<now'>>
        /\ LastSyncOf(PersistedNext) >= LastSyncOf(Persisted) ]_vars

(***************************************************************************)
(* Re-running the orchestration against a remote catalog that requires the *)
(* two artifacts and answers every negotiation: it declares an artifact    *)
(* in `updates` as long as the inventory sent in current_models does not   *)
(* show it with the declared size and hash.  Runs follow one another       *)
(* without end; runs and clock readings beyond MaxRuns are not told apart. *)
(***************************************************************************)
Declared(f) == [filename |-> f, download_url |-> UrlHttp, size |-> 1, md5 |-> "h1"]

\* The inventory (or the manifest's models) shows f as the catalog declares it.
Shows(models, f) ==
    /\ f \in DOMAIN models
    /\ models[f].size = Declared(f).size
    /\ models[f].md5 = Declared(f).md5

RequiredList(scan) ==
    (IF Shows(scan, FPair) THEN <<>> ELSE <<Declared(FPair)>>)
    \o (IF Shows(scan, FVariant) THEN <<>> ELSE <<Declared(FVariant)>>)

RetryStart(hasS3) ==
    /\ pc = "idle"
    /\ runs' = IF runs < MaxRuns THEN runs + 1 ELSE runs
    /\ now' = IF now < MaxRuns THEN now + 1 ELSE now
    /\ manifest' = LoadManifest(mfile)
    /\ s3_client' = hasS3
    /\ pc' = "check"
    /\ UNCHANGED <<files, mfile, update_info, todo, cur, saving, results, result,
                   calls, handlers>>

\* check_for_updates, answered by the catalog.
RetryCheck ==
    /\ pc = "check"
    /\ LET list == RequiredList(GetCurrentModels(files))
       IN  CheckForUpdates([kind |-> "ok",
                            body |-> [success |-> TRUE, updates |-> Len(list),
                                      entries |-> list]])

\* The next iteration of the loop, on the next entry of the declared list.
RetryDownload(outcome) ==
    /\ pc = "loop"
    /\ todo > 0
    /\ DownloadModel(update_info.entries[update_info.updates - todo + 1], outcome)

RetryNext ==
    \/ \E hasS3 \in BOOLEAN : RetryStart(hasS3)
    \/ RetryCheck
    \/ \E ok \in BOOLEAN : SaveOpen(ok)
    \/ \E ok \in BOOLEAN : SaveWrite(ok)
    \/ SyncDecide
    \/ \E outcome \in TransportOutcomes : RetryDownload(outcome)
    \/ SyncReturn
    \/ Finish

\* The transport delivers the declared bytes of artifact f.
DeliversDeclared(f) ==
    /\ pc = "loop"
    /\ todo > 0
    /\ update_info.entries[update_info.updates - todo + 1].filename = f
    /\ RetryDownload("b1")

\* The runs go on, the transport delivers the declared bytes of each artifact
\* again and again when it is asked to, and so does the save of a verified
\* entry succeed.
RetryFairness ==
    /\ WF_vars(RetryNext)
    /\ \A f \in Filenames : SF_vars(DeliversDeclared(f))
    /\ SF_vars(saving = "commit" /\ SaveOpen(TRUE))
    /\ SF_vars(saving = "commit" /\ SaveWrite(TRUE))

RetrySpec == Init /\ [][RetryNext]_vars /\ RetryFairness

\* A run returns f in `downloaded` with f persisted as declared.
Converged(f) ==
    /\ pc = "done"
    /\ "downloaded" \in DOMAIN result
    /\ \E i \in 1..Len(result.downloaded) : result.downloaded[i] = f
    /\ Shows(Persisted.models, f)

(***************************************************************************)
(* C32.  Retry across runs converges: with a catalog that keeps declaring  *)
(* artifact f until the inventory shows it with the declared size and hash *)
(* and a transport that eventually delivers the matching bytes, re-running *)
(* sync_models eventually reaches a state where the persisted manifest has *)
(* an entry for f with the declared size and hash and the run reports f in *)
(* `downloaded`.                                                           *)
(***************************************************************************)
C32_RetryConverges ==
    \A f \in Filenames : <>Converged(f)

\* The step removes or renames nothing: every file of the directory is still
\* there, untouched or overwritten by the transport at this time.
FilesKept ==
    \A g \in DOMAIN files :
        /\ g \in DOMAIN files'
        /\ files'[g] = files[g] \/ files'[g].mtime = now

\* download_model returns False and the file it was called for is not in the
\* directory although the step changed the directory.
WrittenFileMissing ==
    /\ pc' = "loop"
    /\ files' # files
    /\ calls'[Len(calls')][1] \notin DOMAIN files'

(***************************************************************************)
(* The runs during which nobody touches the artifact directory while       *)
(* download_model is at work: every change of the directory inside the     *)
(* loop is download_model's own.                                           *)
(***************************************************************************)
QuietNext ==
    \/ \E hasS3 \in BOOLEAN : Start(hasS3)
    \/ \E resp \in Responses : CheckForUpdates(resp)
    \/ \E ok \in BOOLEAN : SaveOpen(ok)
    \/ \E ok \in BOOLEAN : SaveWrite(ok)
    \/ SyncDecide
    \/ \E model_info \in ModelInfos, outcome \in TransportOutcomes \ {Gone} :
           DownloadModel(model_info, outcome)
    \/ SyncReturn
    \/ Finish
    \/ Crash
    \/ \E f \in Filenames : RemoveFile(f)

QuietSpec == Init /\ [][QuietNext]_vars

(***************************************************************************)
(* C33.  A failed verification leaves the downloaded file in place:        *)
(* download_model never deletes or renames a file of the artifact          *)
(* directory, so after it returns False the file written by the transport  *)
(* (if any) is still on disk.                                              *)
(***************************************************************************)
C33_FailedVerificationKeepsFile ==
    [][(pc = "loop") => (FilesKept /\ ~WrittenFileMissing)]_vars

C33_Witness ==
    /\ pc = "loop"
    /\ Len(calls) = 1
    /\ ~calls[1][2]
    /\ calls[1][1] \in DOMAIN files
    /\ files[calls[1][1]].bytes \in Blobs
    /\ files[calls[1][1]].mtime = now

(***************************************************************************)
(* C34.  Manifest writes stay consistent full snapshots under              *)
(* interleaving: when the sync runs of several /sync-models requests       *)
(* interleave, every artifact verified by any of them has its entry in the *)
(* persisted manifest once all of them have finished.                      *)
(***************************************************************************)
C34_NoLostUpdate ==
    (\A r \in DOMAIN handlers : handlers[r].pc = "done")
        => \A r \in DOMAIN handlers :
              handlers[r].downloaded \subseteq DOMAIN Persisted.models

====
